---- MODULE Spec2Model ----
(***************************************************************************)
(* Model of the SportsWorldCentral read-only API (chapter6/main.py) and of *)
(* its client SDK (chapter7/sdk/src/swcpy/swc_client.py).                  *)
(*                                                                         *)
(* Three kinds of call are modelled, one at a time:                        *)
(*   - a request served by a route of main.py (get_db session, handler,    *)
(*     session close), optionally continued page after page;               *)
(*   - an SDK method going through call_api, wrapped by backoff's          *)
(*     on_exception when the configuration enables backoff;                *)
(*   - an SDK bulk-file download.                                          *)
(* Time is counted in ticks, Unit ticks to the second.                     *)
(***************************************************************************)
EXTENDS Integers, Sequences, FiniteSets, TLC

VARIABLES
    cfg,          \* SWCClient configuration: swc_backoff, swc_backoff_max_time, swc_bulk_file_format
    rtPc,         \* route call: "idle", "handling" (session open), "responded"
    rtRoute,      \* name of the route function being served
    rtReq,        \* query/path parameters the HTTP caller sent (only the ones it set)
    rtCrud,       \* keyword arguments handed to the crud function by the handler
    rtResp,       \* response of the route call
    rtFault,      \* whether the store failed under the handler
    rtPrev,       \* response of the previous identical call, when the call was repeated
    rtPages,      \* rows of the pages fetched so far by a paging caller
    rtSkip0,      \* skip of the first page of the paging run
    openSessions, \* database sessions opened by get_db and not closed
    sdkPc,        \* SDK call: "idle", "request" (httpx.Client open), "sleeping", "returned", "raised"
    sdkMethod,    \* SDK method called
    sdkArgs,      \* its arguments
    sdkSent,      \* endpoint and query parameters of the GET (params None when no dict was passed)
    sdkApi,       \* what call_api, wrapped or not, gave the SDK method
    tries,        \* backoff: attempts started
    elapsed,      \* backoff: time since the start, read at the top of the retry loop
    now,          \* ticks since the SDK call started
    waits,        \* delays slept between attempts, in order
    attempts,     \* outcome of each finished attempt of call_api, in order
    sdkResult,    \* what the SDK method gave its caller
    openClients,  \* httpx.Client objects opened by call_api and not closed
    bulkPc,       \* bulk-file call: "idle", "done"
    bulkGet,      \* the GET of the bulk-file call: url, how often it was sent, the last answer
    bulkResult    \* what the bulk-file method gave its caller

rtVars   == <<rtPc, rtRoute, rtReq, rtCrud, rtResp, rtFault, rtPrev, rtPages, rtSkip0, openSessions>>
sdkVars  == <<sdkPc, sdkMethod, sdkArgs, sdkSent, sdkApi, tries, elapsed, now, waits, attempts,
              sdkResult, openClients>>
bulkVars == <<bulkPc, bulkGet, bulkResult>>
vars     == <<cfg, rtVars, sdkVars, bulkVars>>

-----------------------------------------------------------------------------
(* Bounds of the model *)

Unit       == 2   \* ticks per second
MaxTimeSec == 4   \* largest swc_backoff_max_time tried, in seconds
MaxDur     == 1   \* longest duration of one HTTP attempt, in ticks
MaxRows    == 3   \* rows per table of the database
MaxSkip    == 1   \* largest skip a caller starts a list call with
MaxLimit   == 2   \* largest explicit limit a caller passes

-----------------------------------------------------------------------------
(* Python values.  None, str, int and date values are kept apart by the    *)
(* name of the field that holds them.                                      *)

None      == [none |-> TRUE]
PyStr(s)  == [str |-> s]
PyInt(n)  == [int |-> n]
PyDate(n) == [date |-> n]

PyVal(x) ==
    CASE "str"  \in DOMAIN x -> x.str
      [] "int"  \in DOMAIN x -> x.int
      [] "date" \in DOMAIN x -> x.date

\* JSON bodies: an object, an array, or text that is not JSON
JsonObject(r) == [object |-> r]
JsonArray(s)  == [array |-> s]
NotJson       == [text |-> "Internal Server Error"]
IsJson(body)  == "text" \notin DOMAIN body

NoValue == [kind |-> "nothing"]

\* How a call ends: with a value, or with an exception of some class
Return(v) == [returned |-> v]
Raise(e)  == [raised |-> e]
IsReturn(o) == "returned" \in DOMAIN o
IsRaise(o)  == "raised" \in DOMAIN o

Min(a, b) == IF a <= b THEN a ELSE b

RECURSIVE Pow2(_)
Pow2(n) == IF n = 0 THEN 1 ELSE 2 * Pow2(n - 1)

RECURSIVE Concat(_)
Concat(ss) == IF ss = <<>> THEN <<>> ELSE Head(ss) \o Concat(Tail(ss))

RECURSIVE SumSeq(_)
SumSeq(s) == IF s = <<>> THEN 0 ELSE Head(s) + SumSeq(Tail(s))

EmptyMap == [k \in {} |-> None]

-----------------------------------------------------------------------------
(* The store: four tables, read-only, in primary-key order. *)

PlayerRow(i) ==
    [player_id |-> 1000 + i,
     first_name |-> IF i % 2 = 1 THEN "Bryce" ELSE "Caleb",
     last_name |-> IF i % 3 = 0 THEN "Williams" ELSE "Young",
     last_changed_date |-> i % 3]

LeagueRow(i) ==
    [league_id |-> 5000 + i,
     league_name |-> IF i % 2 = 1 THEN "Pigskin Prodigal Fantasy League" ELSE "Recurring Champions League",
     last_changed_date |-> i % 3]

TeamRow(i) ==
    [team_id |-> 500 + i,
     team_name |-> IF i % 2 = 1 THEN "Wreckers" ELSE "Rockets",
     league_id |-> 5000 + ((i + 1) \div 2),
     last_changed_date |-> i % 3]

PerformanceRow(i) ==
    [performance_id |-> 2000 + i,
     player_id |-> 1000 + ((i + 1) \div 2),
     last_changed_date |-> i % 3]

Table(name) ==
    CASE name = "players"      -> [i \in 1..MaxRows |-> PlayerRow(i)]
      [] name = "leagues"      -> [i \in 1..MaxRows |-> LeagueRow(i)]
      [] name = "teams"        -> [i \in 1..MaxRows |-> TeamRow(i)]
      [] name = "performances" -> [i \in 1..MaxRows |-> PerformanceRow(i)]

\* Identities a by-id lookup is tried with: the first row's and one no row has
LookupIds(base) == {base + 1, base + MaxRows + 1}

-----------------------------------------------------------------------------
(* Filter-Query Layer (crud module): filters first, then offset and limit. *)

PagingKeys == {"skip", "limit"}

\* One filter of the keyword arguments applied to one row.  A filter whose
\* value is None, or whose key was not handed over, selects every row.
FilterMatches(row, key, val) ==
    \/ val = None
    \/ IF key = "min_last_changed_date"
         THEN row.last_changed_date >= PyVal(val)
         ELSE row[key] = PyVal(val)

RowMatches(row, kwargs) ==
    \A key \in DOMAIN kwargs \ PagingKeys : FilterMatches(row, key, kwargs[key])

Filtered(table, kwargs) ==
    LET Keep(row) == RowMatches(row, kwargs)
    IN  SelectSeq(Table(table), Keep)

OffsetLimit(rows, skip, limit) ==
    SubSeq(rows, skip + 1, Min(Len(rows), skip + limit))

\* crud.get_players / get_performances / get_leagues / get_teams
CrudList(table, kwargs) ==
    OffsetLimit(Filtered(table, kwargs), PyVal(kwargs.skip), PyVal(kwargs.limit))

\* crud.get_player / get_league: the row with that identity, or None
CrudGet(table, idcol, id) ==
    LET hits == SelectSeq(Table(table), LAMBDA row : row[idcol] = id)
    IN  IF hits = <<>> THEN None ELSE Head(hits)

\* crud.get_league_count / get_team_count / get_player_count
CrudCount(table) == Len(Table(table))

-----------------------------------------------------------------------------
(* HTTP Route Layer (main.py) *)

ListRoutes  == {"read_players", "read_performances", "read_leagues", "read_teams"}
ByIdRoutes  == {"read_player", "read_league"}
DbRoutes    == ListRoutes \cup ByIdRoutes \cup {"get_count"}
Routes      == DbRoutes \cup {"root"}

RouteTable(route) ==
    CASE route \in {"read_players", "read_player"} -> "players"
      [] route = "read_performances"               -> "performances"
      [] route \in {"read_leagues", "read_league"} -> "leagues"
      [] route = "read_teams"                      -> "teams"

RouteIdColumn(route) ==
    CASE route = "read_player" -> "player_id"
      [] route = "read_league" -> "league_id"

\* Optional filter parameters of a list route; skip and limit come on top
RouteFilters(route) ==
    CASE route = "read_players"      -> {"minimum_last_changed_date", "first_name", "last_name"}
      [] route = "read_performances" -> {"minimum_last_changed_date"}
      [] route = "read_leagues"      -> {"minimum_last_changed_date", "league_name"}
      [] route = "read_teams"        -> {"minimum_last_changed_date", "team_name", "league_id"}

\* Keyword under which the handler hands a query parameter to crud
CrudKey(param) ==
    IF param = "minimum_last_changed_date" THEN "min_last_changed_date" ELSE param

\* Query(default): the value the caller sent, or the declared default
Query(req, param, default) ==
    IF param \in DOMAIN req THEN req[param] ELSE default

\* PagingKwargs with the caller's skip dropped
PagingKwargs_no_skip(req) ==
    [skip |-> PyInt(0),
     limit |-> Query(req, "limit", PyInt(100))]

\* skip and limit as every list handler passes them on
PagingKwargs(req) ==
    [skip |-> Query(req, "skip", PyInt(0)),
     limit |-> Query(req, "limit", PyInt(100))]

\* FilterKwargs that forwards no filter value: every filter goes out as None
FilterKwargs_dropped(route, req) ==
    [key \in {CrudKey(param) : param \in RouteFilters(route)} |-> None]

\* The filters as a list handler passes them on: every filter of the route
\* under its keyword, with the default None when the caller did not send it
FilterKwargs(route, req) ==
    [key \in {CrudKey(param) : param \in RouteFilters(route)} |->
        LET param == CHOOSE q \in RouteFilters(route) : CrudKey(q) = key
        IN  Query(req, param, None)]

\* Keyword arguments a list handler passes to crud.get_<table>
RouteKwargs(route, req) == PagingKwargs(req) @@ FilterKwargs(route, req)

HttpResponse(status, body) == [status_code |-> status, body |-> body]

\* ByIdReply without the None check: whatever crud returned goes out as 200
ByIdReply_unchecked(row, what) == HttpResponse(200, JsonObject(row))

\* read_player / read_league: 404 when crud returned None, else the row
ByIdReply(row, what) ==
    IF row = None
      THEN HttpResponse(404, JsonObject([detail |-> what \o " not found"]))
      ELSE HttpResponse(200, JsonObject(row))

read_player(req) ==
    ByIdReply(CrudGet("players", "player_id", PyVal(req.player_id)), "Player")

read_league(req) ==
    ByIdReply(CrudGet("leagues", "league_id", PyVal(req.league_id)), "League")

read_list(route, req) ==
    HttpResponse(200, JsonArray(CrudList(RouteTable(route), RouteKwargs(route, req))))

root == HttpResponse(200, JsonObject([message |-> "API health check successful"]))

get_count ==
    HttpResponse(200, JsonObject([league_count |-> CrudCount("leagues"),
                                  team_count |-> CrudCount("teams"),
                                  player_count |-> CrudCount("players")]))

\* An exception out of a handler (a fault of the store): the framework's 500
ServerError == HttpResponse(500, NotJson)

\* What the handler of `route` answers to `req` when the store works
Handle(route, req) ==
    CASE route \in ListRoutes   -> read_list(route, req)
      [] route = "read_player"  -> read_player(req)
      [] route = "read_league"  -> read_league(req)
      [] route = "get_count"    -> get_count
      [] route = "root"         -> root

\* Keyword arguments the handler of `route` calls crud with
HandedToCrud(route, req) ==
    CASE route \in ListRoutes   -> RouteKwargs(route, req)
      [] route \in ByIdRoutes   -> req
      [] OTHER                  -> EmptyMap

\* get_db with the close after the yield but outside a finally clause
get_db_exit_no_finally(sessions, raised) == IF raised THEN sessions ELSE sessions - 1

\* get_db: the sessions left open once the handler has ended; `raised` tells
\* whether it ended in an exception (HTTPException included).  The close is
\* in a finally clause.
get_db_exit(sessions, raised) == sessions - 1

\* Requests an HTTP caller makes
Pagings ==
    {EmptyMap}
      \cup {[limit |-> PyInt(l)] : l \in 1..MaxLimit}
      \cup {[skip |-> PyInt(k), limit |-> PyInt(l)] : k \in 0..MaxSkip, l \in 1..MaxLimit}

FilterChoices(route) ==
    CASE route = "read_players" ->
           {EmptyMap,
            [first_name |-> PyStr("Bryce")],
            [first_name |-> PyStr("Bryce"), last_name |-> PyStr("Young")],
            [last_name |-> PyStr("")],
            [minimum_last_changed_date |-> PyDate(1)]}
      [] route = "read_performances" ->
           {EmptyMap, [minimum_last_changed_date |-> PyDate(1)]}
      [] route = "read_leagues" ->
           {EmptyMap,
            [league_name |-> PyStr("Recurring Champions League")],
            [minimum_last_changed_date |-> PyDate(2)]}
      [] route = "read_teams" ->
           {EmptyMap,
            [team_name |-> PyStr("Wreckers")],
            [league_id |-> PyInt(0)],
            [team_name |-> PyStr("Wreckers"), league_id |-> PyInt(5001)]}

Requests(route) ==
    CASE route \in ListRoutes  -> {pg @@ f : pg \in Pagings, f \in FilterChoices(route)}
      [] route = "read_player" -> {[player_id |-> PyInt(i)] : i \in LookupIds(1000)}
      [] route = "read_league" -> {[league_id |-> PyInt(i)] : i \in LookupIds(5000)}
      [] OTHER                 -> {EmptyMap}

-----------------------------------------------------------------------------
(* State *)

Idle == rtPc = "idle" /\ sdkPc = "idle" /\ bulkPc = "idle"

RtInit ==
    /\ rtPc = "idle"
    /\ rtRoute = "none"
    /\ rtReq = EmptyMap
    /\ rtCrud = NoValue
    /\ rtResp = NoValue
    /\ rtFault = FALSE
    /\ rtPrev = NoValue
    /\ rtPages = <<>>
    /\ rtSkip0 = 0
    /\ openSessions = 0

-----------------------------------------------------------------------------
(* A request served by the Route Layer *)

\* The framework resolves Depends(get_db): SessionLocal() up to the yield
RouteBegin(route, req) ==
    /\ Idle
    /\ rtPc' = "handling"
    /\ rtRoute' = route
    /\ rtReq' = req
    /\ rtSkip0' = PyVal(Query(req, "skip", PyInt(0)))
    /\ openSessions' = IF route \in DbRoutes THEN openSessions + 1 ELSE openSessions
    /\ UNCHANGED <<rtCrud, rtResp, rtFault, rtPrev, rtPages>>

\* The handler runs to its end, then get_db resumes after the yield.
\* `fault`: the store fails under crud, the exception leaves the handler.
RouteFinish(fault) ==
    /\ rtPc = "handling"
    /\ fault => rtRoute \in DbRoutes
    /\ LET resp == IF fault THEN ServerError ELSE Handle(rtRoute, rtReq)
       IN  /\ rtResp' = resp
           /\ rtPages' = IF rtRoute \in ListRoutes /\ ~fault
                           THEN Append(rtPages, resp.body.array)
                           ELSE rtPages
           /\ openSessions' = IF rtRoute \in DbRoutes
                                THEN get_db_exit(openSessions, resp.status_code # 200)
                                ELSE openSessions
    /\ rtCrud' = HandedToCrud(rtRoute, rtReq)
    /\ rtFault' = fault
    /\ rtPc' = "responded"
    /\ UNCHANGED <<rtRoute, rtReq, rtPrev, rtSkip0>>

\* The caller repeats a by-id lookup
RouteRepeat ==
    /\ rtPc = "responded"
    /\ rtRoute \in ByIdRoutes
    /\ rtPrev = NoValue
    /\ ~rtFault
    /\ rtPrev' = rtResp
    /\ rtPc' = "handling"
    /\ openSessions' = openSessions + 1
    /\ UNCHANGED <<rtRoute, rtReq, rtCrud, rtResp, rtFault, rtPages, rtSkip0>>

\* The caller asks for the next page: same filters, skip advanced by limit
RouteNextPage ==
    /\ rtPc = "responded"
    /\ rtRoute \in ListRoutes
    /\ rtResp.status_code = 200
    /\ rtResp.body.array # <<>>
    /\ LET skip  == PyVal(Query(rtReq, "skip", PyInt(0)))
           limit == PyVal(Query(rtReq, "limit", PyInt(100)))
       IN  rtReq' = [skip |-> PyInt(skip + limit)] @@ rtReq
    /\ rtPc' = "handling"
    /\ openSessions' = openSessions + 1
    /\ UNCHANGED <<rtRoute, rtCrud, rtResp, rtFault, rtPrev, rtPages, rtSkip0>>

RouteReset ==
    /\ rtPc = "responded"
    /\ rtPc' = "idle"
    /\ rtRoute' = "none"
    /\ rtReq' = EmptyMap
    /\ rtCrud' = NoValue
    /\ rtResp' = NoValue
    /\ rtFault' = FALSE
    /\ rtPrev' = NoValue
    /\ rtPages' = <<>>
    /\ rtSkip0' = 0
    /\ UNCHANGED openSessions

RouteCall == \E route \in Routes : \E req \in Requests(route) : RouteBegin(route, req)

RouteEnd == \E fault \in BOOLEAN : RouteFinish(fault)

-----------------------------------------------------------------------------
(* Client SDK (swc_client.py): configuration and requests *)

Configs ==
    [swc_backoff : BOOLEAN,
     swc_backoff_max_time : {sec * Unit : sec \in 0..MaxTimeSec},
     swc_bulk_file_format : {"csv", "Parquet"}]

ListMethods == {"list_leagues", "list_teams", "list_players", "list_performances"}
ByIdMethods == {"get_league_by_id", "get_player_by_id"}
SdkMethods  == ListMethods \cup ByIdMethods \cup {"get_health_check", "get_counts"}

\* The route each SDK method mirrors
RouteOf(method) ==
    CASE method = "get_health_check"  -> "root"
      [] method = "list_leagues"      -> "read_leagues"
      [] method = "get_league_by_id"  -> "read_league"
      [] method = "list_teams"        -> "read_teams"
      [] method = "list_players"      -> "read_players"
      [] method = "get_player_by_id"  -> "read_player"
      [] method = "list_performances" -> "read_performances"
      [] method = "get_counts"        -> "get_count"

\* Schema class a method builds its result with
ClassOf(method) ==
    CASE method \in {"list_leagues", "get_league_by_id"} -> "League"
      [] method = "list_teams"                           -> "Team"
      [] method \in {"list_players", "get_player_by_id"} -> "Player"
      [] method = "list_performances"                    -> "Performance"
      [] method = "get_counts"                           -> "Counts"

Endpoint(method) ==
    CASE method = "get_health_check"                      -> "/"
      [] method \in {"list_leagues", "get_league_by_id"}  -> "/v0/leagues/"
      [] method = "list_teams"                            -> "/v0/teams/"
      [] method \in {"list_players", "get_player_by_id"}  -> "/v0/players/"
      [] method = "list_performances"                     -> "/v0/performances/"
      [] method = "get_counts"                            -> "/v0/counts/"

\* Names bound at module level: the imports and the logger, lines 1-8
ModuleGlobals ==
    {"httpx", "config", "League", "Team", "Player", "Performance", "Counts",
     "List", "date", "backoff", "logging", "logger", "SWCClient"}

\* The class attribute holding a method's endpoint, lines 24-29
EndpointName(method) ==
    CASE method = "get_health_check"  -> "HEALTH_CHECK_ENDPOINT"
      [] method = "list_leagues"      -> "LIST_LEAGUES_ENDPOINT"
      [] method = "get_league_by_id"  -> "LIST_LEAGUES_ENDPOINT"
      [] method = "list_teams"        -> "LIST_TEAMS_ENDPOINT"
      [] method = "list_players"      -> "LIST_PLAYERS_ENDPOINT"
      [] method = "get_player_by_id"  -> "LIST_PLAYERS_ENDPOINT"
      [] method = "list_performances" -> "LIST_PERFORMANCES_ENDPOINT"
      [] method = "get_counts"        -> "GET_COUNTS_ENDPOINT"

\* Whether the method writes the attribute as self.NAME; get_counts, line
\* 173, writes the bare name
ThroughSelf(method) == method # "get_counts"

\* Evaluating the endpoint expression of a method: an attribute of self is
\* found on the class; a bare name is looked up among the function's locals
\* (none of that name), the module's globals and the builtins, and the class
\* body is not one of these scopes
endpoint_lookup(method) ==
    IF ThroughSelf(method) \/ EndpointName(method) \in ModuleGlobals
      THEN Return(PyStr(Endpoint(method)))
      ELSE Raise("NameError")

\* A keyword argument of an SDK method, or its default
Arg(args, name, default) ==
    IF name \in DOMAIN args THEN args[name] ELSE default

\* The params dict a list method builds: every key, None for what is unset
Params(method, args) ==
    LET common == [skip |-> Arg(args, "skip", PyInt(0)),
                   limit |-> Arg(args, "limit", PyInt(100)),
                   minimum_last_changed_date |-> Arg(args, "minimum_last_changed_date", None)]
    IN  CASE method = "list_leagues" ->
               common @@ [league_name |-> Arg(args, "league_name", None)]
          [] method = "list_teams" ->
               common @@ [team_name |-> Arg(args, "team_name", None),
                          league_id |-> Arg(args, "league_id", None)]
          [] method = "list_players" ->
               common @@ [last_name |-> Arg(args, "last_name", None),
                          first_name |-> Arg(args, "first_name", None)]
          [] method = "list_performances" -> common
          [] OTHER -> None

\* call_api: a non-empty params dict loses its None-valued keys
StripNone(api_params) ==
    IF api_params = None \/ DOMAIN api_params = {}
      THEN api_params
      ELSE [k \in {k \in DOMAIN api_params : api_params[k] # None} |-> api_params[k]]

\* The GET call_api sends for a method call: path, identity suffix, params
Get(method, args) ==
    [path |-> Endpoint(method),
     id |-> IF method = "get_player_by_id" THEN args.player_id
            ELSE IF method = "get_league_by_id" THEN args.league_id
            ELSE None,
     params |-> StripNone(Params(method, args))]

\* The server side of a GET: the request the route sees
RouteRequest(method, get) ==
    CASE method = "get_player_by_id" -> [player_id |-> get.id]
      [] method = "get_league_by_id" -> [league_id |-> get.id]
      [] method \in ListMethods      -> get.params
      [] OTHER                       -> EmptyMap

\* Calls a user of the SDK makes
SdkArgs(method) ==
    CASE method \in ListMethods       -> FilterChoices(RouteOf(method))
                                           \cup {[limit |-> PyInt(1)]}
      [] method = "get_player_by_id"  -> {[player_id |-> PyInt(i)] : i \in LookupIds(1000)}
      [] method = "get_league_by_id"  -> {[league_id |-> PyInt(i)] : i \in LookupIds(5000)}
      [] OTHER                        -> {EmptyMap}

-----------------------------------------------------------------------------
(* Client SDK: one attempt of call_api and what a method makes of it *)

RequestError == [error |-> "RequestError"]
Answer(resp) == [response |-> resp]

\* A 5xx answer with a JSON body, as a gateway in front of the API gives
Unavailable == HttpResponse(503, JsonObject([detail |-> "Service Unavailable"]))

\* What can come back for a GET: a network-level error, the route's answer,
\* the framework's 500 or a gateway's 503
Transports(method, get) ==
    {RequestError,
     Answer(Handle(RouteOf(method), RouteRequest(method, get))),
     Answer(ServerError),
     Answer(Unavailable)}

\* call_api, lines 87-100.  client.get raises httpx.RequestError on a
\* network-level error and returns the response whatever its status (nothing
\* calls raise_for_status); the debug line then decodes the body as JSON.
call_api(transport) ==
    IF transport = RequestError THEN Raise("RequestError")
    ELSE IF ~IsJson(transport.response.body) THEN Raise("JSONDecodeError")
    ELSE Return(transport.response)

\* with httpx.Client(...) as client: the clients left open once the block
\* is left, by return or by exception
client_exit(clients, raised) == clients - 1

\* Schema classes: the fields a typed object cannot be built without
RequiredFields(cls) ==
    CASE cls = "Player"      -> {"player_id", "first_name", "last_name", "last_changed_date"}
      [] cls = "League"      -> {"league_id", "league_name", "last_changed_date"}
      [] cls = "Team"        -> {"team_id", "team_name", "league_id", "last_changed_date"}
      [] cls = "Performance" -> {"performance_id", "player_id", "last_changed_date"}
      [] cls = "Counts"      -> {"league_count", "team_count", "player_count"}

Validates(cls, mapping) == RequiredFields(cls) \subseteq DOMAIN mapping

\* Cls(**mapping)
Construct(cls, mapping) ==
    IF Validates(cls, mapping)
      THEN Return([class |-> cls, fields |-> mapping])
      ELSE Raise("ValidationError")

\* get_player_by_id / get_league_by_id after call_api: Cls(**response.json())
by_id_result(method, resp) ==
    IF "object" \in DOMAIN resp.body
      THEN Construct(ClassOf(method), resp.body.object)
      ELSE Raise("TypeError")

\* list_* after call_api: [Cls(**x) for x in response.json()]
list_result(method, resp) ==
    IF "array" \in DOMAIN resp.body
      THEN IF \A i \in DOMAIN resp.body.array : Validates(ClassOf(method), resp.body.array[i])
             THEN Return([list |-> [i \in DOMAIN resp.body.array |->
                                      [class |-> ClassOf(method), fields |-> resp.body.array[i]]]])
             ELSE Raise("ValidationError")
      ELSE Raise("TypeError")

\* The statements of an SDK method that follow its call of call_api
MethodResult(method, api) ==
    IF IsRaise(api) THEN api
    ELSE IF api.returned = None THEN Raise("AttributeError")
    ELSE CASE method = "get_health_check" -> Return([response |-> api.returned])
           [] method \in ByIdMethods      -> by_id_result(method, api.returned)
           [] method = "get_counts"       -> by_id_result(method, api.returned)
           [] method \in ListMethods      -> list_result(method, api.returned)

-----------------------------------------------------------------------------
(* Client SDK: the retry wrapper set up in __init__, lines 56-62 *)

\* wait_gen = backoff.expo: 1, 2, 4, ... seconds
expo(n) == Unit * Pow2(n)

\* jitter = backoff.random_jitter: adds a random part of a second
Jitters == 0..(Unit - 1)

\* Retryable as with exception=Exception
Retryable_any(exc) == TRUE

\* exception = (httpx.RequestError, httpx.HTTPStatusError)
Retryable(exc) == exc \in {"RequestError", "HTTPStatusError"}

\* The wrapper gives up once the time read at the top of the loop has
\* reached max_time
max_time_exceeded(el, max_time) == el >= max_time

\* next_wait without the cut to the time left
next_wait_uncut(n, jitter, el, max_time) == expo(n) + jitter

\* The delay before the next attempt: the generator's value plus jitter,
\* never longer than what is left of max_time
next_wait(n, jitter, el, max_time) == Min(expo(n) + jitter, max_time - el)

\* give_up as with raise_on_giveup=False: the wrapper returns None
give_up_silent(exc) == Return(None)

\* On giving up the wrapper re-raises the exception of the last attempt
give_up(exc) == Raise(exc)

SdkInit ==
    /\ sdkPc = "idle"
    /\ sdkMethod = "none"
    /\ sdkArgs = EmptyMap
    /\ sdkSent = NoValue
    /\ sdkApi = NoValue
    /\ tries = 0
    /\ elapsed = 0
    /\ now = 0
    /\ waits = <<>>
    /\ attempts = <<>>
    /\ sdkResult = NoValue
    /\ openClients = 0

\* An SDK method is called.  It evaluates the argument of call_api first:
\* when that raises, the method ends there and call_api is not entered;
\* otherwise it calls call_api, which opens its client
SdkCall(method, args) ==
    /\ Idle
    /\ sdkMethod' = method
    /\ sdkArgs' = args
    /\ IF IsRaise(endpoint_lookup(method))
         THEN /\ sdkPc' = "raised"
              /\ sdkResult' = endpoint_lookup(method)
              /\ UNCHANGED <<sdkSent, tries, openClients>>
         ELSE /\ sdkPc' = "request"
              /\ sdkSent' = Get(method, args)
              /\ tries' = 1
              /\ openClients' = openClients + 1
              /\ UNCHANGED sdkResult
    /\ UNCHANGED <<sdkApi, elapsed, now, waits, attempts>>

\* The method ends: call_api's outcome `api` reaches it and it builds its result
SdkEnds(api) ==
    /\ sdkApi' = api
    /\ sdkResult' = MethodResult(sdkMethod, api)
    /\ sdkPc' = IF IsReturn(MethodResult(sdkMethod, api)) THEN "returned" ELSE "raised"
    /\ UNCHANGED waits

\* One attempt of call_api ends after `dur` ticks, and the wrapper (when
\* there is one) decides what follows
Attempt(transport, dur, jitter) ==
    /\ sdkPc = "request"
    /\ LET out == call_api(transport)
       IN  /\ now' = now + dur
           /\ attempts' = Append(attempts, transport)
           /\ openClients' = client_exit(openClients, IsRaise(out))
           /\ IF IsReturn(out) \/ ~cfg.swc_backoff
                THEN SdkEnds(out)
              ELSE IF ~Retryable(out.raised)
                THEN SdkEnds(out)
              ELSE IF max_time_exceeded(elapsed, cfg.swc_backoff_max_time)
                THEN SdkEnds(give_up(out.raised))
              ELSE /\ waits' = Append(waits, next_wait(Len(waits), jitter, elapsed,
                                                        cfg.swc_backoff_max_time))
                   /\ sdkPc' = "sleeping"
                   /\ UNCHANGED <<sdkApi, sdkResult>>
    /\ UNCHANGED <<sdkMethod, sdkArgs, sdkSent, tries, elapsed>>

\* The sleep ends and the loop starts its next attempt
Wake ==
    /\ sdkPc = "sleeping"
    /\ now' = now + waits[Len(waits)]
    /\ elapsed' = now + waits[Len(waits)]
    /\ tries' = tries + 1
    /\ openClients' = openClients + 1
    /\ sdkPc' = "request"
    /\ UNCHANGED <<sdkMethod, sdkArgs, sdkSent, sdkApi, waits, attempts, sdkResult>>

SdkReset ==
    /\ sdkPc \in {"returned", "raised"}
    /\ sdkPc' = "idle"
    /\ sdkMethod' = "none"
    /\ sdkArgs' = EmptyMap
    /\ sdkSent' = NoValue
    /\ sdkApi' = NoValue
    /\ tries' = 0
    /\ elapsed' = 0
    /\ now' = 0
    /\ waits' = <<>>
    /\ attempts' = <<>>
    /\ sdkResult' = NoValue
    /\ UNCHANGED openClients

SdkStart == \E method \in SdkMethods : \E args \in SdkArgs(method) : SdkCall(method, args)

SdkAttempt ==
    /\ sdkPc = "request"
    /\ \E transport \in Transports(sdkMethod, sdkSent) :
         \E dur \in 0..MaxDur : \E jitter \in Jitters : Attempt(transport, dur, jitter)

-----------------------------------------------------------------------------
(* Client SDK: bulk-file downloads, lines 282-337 *)

BULK_FILE_BASE_URL == "https://raw.githubusercontent.com/zheng-andrew/portfolio-project/main/bulk/"

BulkKinds == {"players", "leagues", "performances", "teams", "team_players"}

BulkMethod(kind) ==
    CASE kind = "players"      -> "get_bulk_player_file"
      [] kind = "leagues"      -> "get_bulk_league_file"
      [] kind = "performances" -> "get_bulk_performance_file"
      [] kind = "teams"        -> "get_bulk_team_file"
      [] kind = "team_players" -> "get_bulk_team_player_file"

\* str.lower() on the formats tried
Lower(s) == IF s = "Parquet" THEN "parquet" ELSE s

\* BULK_FILE_NAMES as __init__ leaves it
BULK_FILE_NAMES(format) ==
    LET base == [players |-> "player_data", leagues |-> "league_data",
                 performances |-> "performance_data", teams |-> "team_data",
                 team_players |-> "team_player_data"]
    IN  [k \in BulkKinds |->
           base[k] \o (IF Lower(format) = "parquet" THEN ".parquet" ELSE ".csv")]

\* Answers of the static-file host: a status and the bytes of the body
BulkAnswers ==
    {[status_code |-> st, content |-> c] :
        st \in {200, 204, 404, 500}, c \in {<<>>, <<80, 65, 82, 49>>}}

\* bulk_result testing for any 2xx status instead of 200
bulk_result_2xx(resp) ==
    IF resp.status_code \div 100 = 2 THEN Return([bytes |-> resp.content]) ELSE Return(None)

\* The statements after httpx.get: the content on 200, else falling off the
\* end of the function
bulk_result(resp) ==
    IF resp.status_code = 200 THEN Return([bytes |-> resp.content]) ELSE Return(None)

BulkInit ==
    /\ bulkPc = "idle"
    /\ bulkGet = NoValue
    /\ bulkResult = NoValue

\* bulk_gets as if the GET went through the retry wrapper of call_api
bulk_gets_retried(backoff, first) ==
    IF backoff /\ first = RequestError THEN 2 ELSE 1

\* GETs one bulk-file call performs, given the outcome of the first: the
\* method calls httpx.get once, outside call_api and outside any loop
bulk_gets(backoff, first) == 1

\* The address of the GET: the static-file location plus the file name
bulk_url(format, kind) == BULK_FILE_BASE_URL \o BULK_FILE_NAMES(format)[kind]

\* A bulk-file method runs from its call to its end.  `first` and `second`
\* are what the static-file host would give to a first and to a second GET.
BulkCall(kind, first, second) ==
    /\ Idle
    /\ bulkPc' = "done"
    /\ LET gets == bulk_gets(cfg.swc_backoff, first)
           last == IF gets = 1 THEN first ELSE second
       IN  /\ bulkGet' = [method |-> BulkMethod(kind),
                          url |-> bulk_url(cfg.swc_bulk_file_format, kind),
                          gets |-> gets,
                          transport |-> last]
           /\ bulkResult' = IF last = RequestError
                              THEN Raise("RequestError")
                              ELSE bulk_result(last.response)

BulkReset ==
    /\ bulkPc = "done"
    /\ bulkPc' = "idle"
    /\ bulkGet' = NoValue
    /\ bulkResult' = NoValue

BulkTransports == {RequestError} \cup {Answer(a) : a \in BulkAnswers}

BulkStart ==
    \E kind \in BulkKinds :
      \E first \in BulkTransports : \E second \in BulkTransports :
        BulkCall(kind, first, second)

-----------------------------------------------------------------------------
(* The specification *)

Init ==
    /\ cfg \in Configs
    /\ RtInit
    /\ SdkInit
    /\ BulkInit

Next ==
    \/ RouteCall     /\ UNCHANGED <<cfg, sdkVars, bulkVars>>
    \/ RouteEnd      /\ UNCHANGED <<cfg, sdkVars, bulkVars>>
    \/ RouteRepeat   /\ UNCHANGED <<cfg, sdkVars, bulkVars>>
    \/ RouteNextPage /\ UNCHANGED <<cfg, sdkVars, bulkVars>>
    \/ RouteReset    /\ UNCHANGED <<cfg, sdkVars, bulkVars>>
    \/ SdkStart      /\ UNCHANGED <<cfg, rtVars, bulkVars>>
    \/ SdkAttempt    /\ UNCHANGED <<cfg, rtVars, bulkVars>>
    \/ Wake          /\ UNCHANGED <<cfg, rtVars, bulkVars>>
    \/ SdkReset      /\ UNCHANGED <<cfg, rtVars, bulkVars>>
    \/ BulkStart     /\ UNCHANGED <<cfg, rtVars, sdkVars>>
    \/ BulkReset     /\ UNCHANGED <<cfg, rtVars, sdkVars>>

Spec == Init /\ [][Next]_vars

TypeOK ==
    /\ rtPc \in {"idle", "handling", "responded"}
    /\ sdkPc \in {"idle", "request", "sleeping", "returned", "raised"}
    /\ bulkPc \in {"idle", "done"}
    /\ openSessions \in 0..1
    /\ openClients \in 0..1

-----------------------------------------------------------------------------
(* Properties of the SDK's retry contract *)

SdkDone == sdkPc \in {"returned", "raised"}

LastAttempt == attempts[Len(attempts)]

IsAnswer(transport) == "response" \in DOMAIN transport

\* An attempt that succeeded: a 200 answer with a JSON body
Succeeded(transport) ==
    /\ IsAnswer(transport)
    /\ transport.response.status_code = 200
    /\ IsJson(transport.response.body)

\* An SDK call under backoff whose first two attempts met a network-level
\* error and whose third succeeded
TwoFailuresThenSuccess ==
    /\ cfg.swc_backoff
    /\ SdkDone
    /\ Len(attempts) = 3
    /\ attempts[1] = RequestError
    /\ attempts[2] = RequestError
    /\ Succeeded(attempts[3])

\* C1 as stated: after two transient failures and a success the call gives
\* the third attempt's response, the second delay is longer than the first,
\* and the delays add up to no more than swc_backoff_max_time.
C1_Original ==
    TwoFailuresThenSuccess =>
        /\ sdkApi = Return(attempts[3].response)
        /\ waits[1] < waits[2]
        /\ SumSeq(waits) <= cfg.swc_backoff_max_time

\* C1 amended: after two transient failures and a success the call gives the
\* third attempt's response; the second delay is longer than the first
\* unless it was cut to what was left of swc_backoff_max_time, in which case
\* the third attempt starts with the window used up; and the delays add up to
\* no more than swc_backoff_max_time.
C1_RetryThenSuccess ==
    TwoFailuresThenSuccess =>
        /\ sdkApi = Return(attempts[3].response)
        /\ Len(waits) = 2
        /\ waits[1] >= Unit
        /\ \/ waits[1] < waits[2]
           \/ elapsed >= cfg.swc_backoff_max_time
        /\ SumSeq(waits) <= cfg.swc_backoff_max_time

C1_Witness ==
    /\ TwoFailuresThenSuccess
    /\ sdkApi = Return(attempts[3].response)
    /\ waits[1] < waits[2]
    /\ elapsed < cfg.swc_backoff_max_time

\* C2: under backoff a call whose attempts all met a transient failure ends
\* by raising that failure, never by returning a value, once the time read
\* at the top of the loop has reached swc_backoff_max_time; and the number of
\* attempts is bounded by the window (each retry but the last waits a second
\* or more).
C2_ExhaustedRetriesRaise ==
    /\ cfg.swc_backoff => (tries - 2) * Unit < cfg.swc_backoff_max_time
    /\ (/\ cfg.swc_backoff
        /\ SdkDone
        /\ attempts # <<>>
        /\ \A i \in DOMAIN attempts : attempts[i] = RequestError) =>
          /\ sdkPc = "raised"
          /\ sdkApi = Raise("RequestError")
          /\ sdkResult = Raise("RequestError")
          /\ elapsed >= cfg.swc_backoff_max_time

C2_Witness ==
    /\ cfg.swc_backoff
    /\ sdkPc = "raised"
    /\ Len(attempts) >= 3
    /\ \A i \in DOMAIN attempts : attempts[i] = RequestError
    /\ sdkResult = Raise("RequestError")

\* C3 as stated: under backoff, while the window is not used up, an attempt
\* that ends in a 4xx or 5xx answer is retried: call_api does not give that
\* answer to the SDK method.
C3_ErrorStatusRetried ==
    (/\ cfg.swc_backoff
     /\ SdkDone
     /\ attempts # <<>>
     /\ IsAnswer(LastAttempt)
     /\ LastAttempt.response.status_code >= 400
     /\ elapsed < cfg.swc_backoff_max_time)
        => sdkApi # Return(LastAttempt.response)

\* C4 as stated: a by-id SDK method whose GET was answered 404 returns the
\* absence signal: it neither raises nor returns a typed object.
C4_NotFoundIsAbsence ==
    (/\ SdkDone
     /\ sdkMethod \in ByIdMethods
     /\ attempts # <<>>
     /\ IsAnswer(LastAttempt)
     /\ LastAttempt.response.status_code = 404)
        => sdkResult = Return(None)

-----------------------------------------------------------------------------
(* Properties of the Route Layer *)

\* Identities the table of a by-id route holds
KnownIds(route) ==
    {Table(RouteTable(route))[i][RouteIdColumn(route)] : i \in 1..MaxRows}

RequestedId == PyVal(rtReq[RouteIdColumn(rtRoute)])

\* C5: a by-id route whose store did not fail answers 404 exactly when the
\* query layer has no row for the identity and 200 with that row otherwise;
\* an identity no row has gets 404; the repeated lookup gets the same answer.
C5_ByIdLookup ==
    (rtPc = "responded" /\ rtRoute \in ByIdRoutes /\ ~rtFault) =>
        LET row == CrudGet(RouteTable(rtRoute), RouteIdColumn(rtRoute), RequestedId)
        IN  /\ rtResp.status_code \in {200, 404}
            /\ rtResp.status_code = 404 <=> row = None
            /\ rtResp.status_code = 200 =>
                  /\ rtResp.body = JsonObject(row)
                  /\ row[RouteIdColumn(rtRoute)] = RequestedId
            /\ RequestedId \notin KnownIds(rtRoute) => rtResp.status_code = 404
            /\ RequestedId \in KnownIds(rtRoute) => rtResp.status_code = 200
            /\ rtPrev # NoValue => rtPrev = rtResp

C5_Witness ==
    /\ rtPc = "responded"
    /\ rtRoute = "read_player"
    /\ RequestedId \notin KnownIds(rtRoute)
    /\ rtResp.status_code = 404
    /\ rtPrev = rtResp

\* C6: a bulk-file method whose GET was answered returns the body's bytes
\* when the status is 200 and None for every other status; for those it
\* neither raises nor returns empty bytes.
C6_BulkAbsence ==
    (bulkPc = "done" /\ IsAnswer(bulkGet.transport)) =>
        LET resp == bulkGet.transport.response
        IN  /\ resp.status_code = 200 => bulkResult = Return([bytes |-> resp.content])
            /\ resp.status_code # 200 =>
                  /\ bulkResult = Return(None)
                  /\ ~IsRaise(bulkResult)
                  /\ bulkResult # Return([bytes |-> <<>>])

C6_Witness ==
    /\ bulkPc = "done"
    /\ IsAnswer(bulkGet.transport)
    /\ bulkGet.transport.response.status_code = 204
    /\ bulkGet.transport.response.content = <<>>
    /\ bulkResult = Return(None)

\* C7: a session is open only while its route call is being handled and a
\* client only while its attempt is in flight: once a call has ended, by a
\* 200, a 404, an exception or a failed attempt, nothing it opened is open.
C7_ScopedConnections ==
    /\ openSessions = (IF rtPc = "handling" /\ rtRoute \in DbRoutes THEN 1 ELSE 0)
    /\ openClients = (IF sdkPc = "request" THEN 1 ELSE 0)

C7_Witness ==
    /\ rtPc = "responded"
    /\ rtFault
    /\ openSessions = 0

\* Rows of the route's table the caller's filters select, in table order
Wanted(route, req) ==
    LET Keep(row) ==
          \A param \in DOMAIN req \ PagingKeys :
             FilterMatches(row, CrudKey(param), req[param])
    IN  SelectSeq(Table(RouteTable(route)), Keep)

NoDuplicates(rows) ==
    \A i, j \in DOMAIN rows : i # j => rows[i] # rows[j]

\* C8: every page of a list call holds at most limit rows, and the pages a
\* caller fetched by advancing skip in steps of limit are, joined in order,
\* exactly the filtered rows from the first skip up to the last page's end,
\* without a duplicate; from skip 0 and up to an empty page, all of them.
C8_PagesPartition ==
    (rtPc = "responded" /\ rtRoute \in ListRoutes /\ ~rtFault) =>
        LET skip   == PyVal(Query(rtReq, "skip", PyInt(0)))
            limit  == PyVal(Query(rtReq, "limit", PyInt(100)))
            wanted == Wanted(rtRoute, rtReq)
            joined == Concat(rtPages)
        IN  /\ Len(rtPages[Len(rtPages)]) <= limit
            /\ joined = SubSeq(wanted, rtSkip0 + 1, Min(Len(wanted), skip + limit))
            /\ NoDuplicates(joined)
            /\ (rtSkip0 = 0 /\ rtPages[Len(rtPages)] = <<>>) => joined = wanted

C8_Witness ==
    /\ rtPc = "responded"
    /\ rtRoute = "read_players"
    /\ "first_name" \in DOMAIN rtReq
    /\ rtSkip0 = 0
    /\ Len(rtPages) >= 3
    /\ rtPages[Len(rtPages)] = <<>>
    /\ Len(Concat(rtPages)) < MaxRows
    /\ Concat(rtPages) = Wanted(rtRoute, rtReq)

\* C9 as stated: a list handler hands crud no key at all for a filter the
\* caller did not send, and the caller's value for one it did.
C9_Original ==
    (rtPc = "responded" /\ rtRoute \in ListRoutes) =>
        \A param \in RouteFilters(rtRoute) :
           IF param \in DOMAIN rtReq
             THEN /\ CrudKey(param) \in DOMAIN rtCrud
                  /\ rtCrud[CrudKey(param)] = rtReq[param]
             ELSE CrudKey(param) \notin DOMAIN rtCrud

\* C9 amended: a list handler hands crud every filter of its route under
\* its key: the caller's value for a filter the caller sent, and None, never
\* an empty string or a zero, for one it did not.
C9_UnsetIsNone ==
    (rtPc = "responded" /\ rtRoute \in ListRoutes) =>
        /\ DOMAIN rtCrud = PagingKeys \cup {CrudKey(param) : param \in RouteFilters(rtRoute)}
        /\ \A param \in RouteFilters(rtRoute) :
              IF param \in DOMAIN rtReq
                THEN rtCrud[CrudKey(param)] = rtReq[param]
                ELSE /\ rtCrud[CrudKey(param)] = None
                     /\ rtCrud[CrudKey(param)] \notin {PyStr(""), PyInt(0)}

C9_Witness ==
    /\ rtPc = "responded"
    /\ rtRoute = "read_teams"
    /\ DOMAIN rtReq = {"league_id"}
    /\ rtCrud.league_id = PyInt(0)
    /\ rtCrud.team_name = None
    /\ rtCrud.min_last_changed_date = None

\* C10: an attempt whose failure is not transient (the answer's body is not
\* JSON) is the last attempt of its call, with or without backoff: the call
\* ends there by raising that failure.
C10_NonTransientSurfaces ==
    \A i \in DOMAIN attempts :
       (IsAnswer(attempts[i]) /\ ~IsJson(attempts[i].response.body)) =>
           /\ i = Len(attempts)
           /\ tries = i
           /\ sdkPc = "raised"
           /\ sdkApi = Raise("JSONDecodeError")
           /\ sdkResult = Raise("JSONDecodeError")

C10_Witness ==
    /\ cfg.swc_backoff
    /\ cfg.swc_backoff_max_time > 0
    /\ sdkPc = "raised"
    /\ tries = 1
    /\ sdkResult = Raise("JSONDecodeError")

-----------------------------------------------------------------------------
(* Properties of the bulk-file methods' place outside the retry policy *)

\* File each bulk-file method asks for under a configured format
ExpectedFile(method, format) ==
    LET stem == CASE method = "get_bulk_player_file"      -> "player_data"
                  [] method = "get_bulk_league_file"      -> "league_data"
                  [] method = "get_bulk_performance_file" -> "performance_data"
                  [] method = "get_bulk_team_file"        -> "team_data"
                  [] method = "get_bulk_team_player_file" -> "team_player_data"
    IN  stem \o (IF format \in {"parquet", "Parquet"} THEN ".parquet" ELSE ".csv")

\* C11: whatever the backoff configuration, a bulk-file call sends one GET,
\* to BULK_FILE_BASE_URL plus the file name; it leaves call_api and its retry
\* state untouched (no attempt, no wait, no client), and a GET that failed is
\* not sent again: its error is what the caller gets.
C11_BulkOutsideRetry ==
    bulkPc = "done" =>
        /\ bulkGet.gets = 1
        /\ bulkGet.url = BULK_FILE_BASE_URL
                           \o ExpectedFile(bulkGet.method, cfg.swc_bulk_file_format)
        /\ sdkPc = "idle"
        /\ tries = 0
        /\ attempts = <<>>
        /\ waits = <<>>
        /\ sdkSent = NoValue
        /\ openClients = 0
        /\ bulkGet.transport = RequestError => bulkResult = Raise("RequestError")

C11_Witness ==
    /\ bulkPc = "done"
    /\ cfg.swc_backoff
    /\ cfg.swc_backoff_max_time > 0
    /\ cfg.swc_bulk_file_format = "Parquet"
    /\ bulkGet.method = "get_bulk_team_player_file"
    /\ bulkGet.gets = 1
    /\ bulkGet.transport = RequestError
    /\ bulkResult = Raise("RequestError")

-----------------------------------------------------------------------------
(* Properties of get_counts *)

\* C12 as stated: a call of get_counts that has ended did not fail before a
\* request was sent: call_api was entered and sent a GET on /v0/counts/, and
\* when the last attempt was answered 200 with the three totals the method
\* returned a Counts object holding them.
C12_GetCountsThroughCallApi ==
    (sdkMethod = "get_counts" /\ SdkDone) =>
        /\ tries >= 1
        /\ attempts # <<>>
        /\ sdkSent # NoValue
        /\ sdkSent.path = "/v0/counts/"
        /\ Succeeded(LastAttempt) =>
              /\ sdkPc = "returned"
              /\ sdkResult = Return([class |-> "Counts",
                                     fields |-> LastAttempt.response.body.object])

====
